---------------------------- MODULE Spec2Model ----------------------------
(***************************************************************************)
(* HelperPro MCP code analyzer: directory scan (file collector, ignore     *)
(* rules), regex entity extractors (JavaScript/TypeScript, Python, Go),    *)
(* the analyzers that aggregate them and the HTTP handlers with their      *)
(* timers.                                                                 *)
(*                                                                         *)
(* Text is modelled at character level: a string is a sequence of          *)
(* one-character strings, and an offset is 0-based as in JavaScript        *)
(* (the character at offset i of s is s[i+1]).                             *)
(***************************************************************************)
EXTENDS Integers, Sequences, FiniteSets, TLC

VARIABLES
    disk,        \* the file system: path -> [kind, readable, text]
    pPath,       \* extractor harness: the file handed to the analyzers' loop body
    pBase,       \* extractor harness: the scan root used for relative paths
    pEntities,   \* extractor harness: what parser.parseFile returned
    pFunctions,  \* extractor harness: the records getFunctions keeps for the file
    pClasses,    \* extractor harness: the records getClasses keeps for the file
    pRan,        \* extractor harness: which analyzers have processed the file
    lookup,      \* line lookup harness: the locals of the binary search loop
    now,         \* wall clock in milliseconds
    reqs,        \* the HTTP requests: id -> handler state and response
    timers       \* pending setTimeout callbacks: [rid, kind, deadline]

vars == <<disk, pPath, pBase, pEntities, pFunctions, pClasses, pRan, lookup, now, reqs, timers>>

----------------------------------------------------------------------------
(* Bounds of the model *)

\* number of lines of a generated source text
MaxLines == 2

\* length of a text of the line lookup
MaxLookupLen == 4

\* number of lines of a text of control statements and quoted declarations
MaxRejectLines == 2

\* granularity of the clock, in milliseconds
TickMs == 5000

\* the clock stops advancing here
MaxClock == 30000

\* time a synchronous extraction loop over a large file set takes
SlowExtractMs == 15000

----------------------------------------------------------------------------
(* Characters and character classes *)

LowerCase ==
    {"a","b","c","d","e","f","g","h","i","j","k","l","m",
     "n","o","p","q","r","s","t","u","v","w","x","y","z"}

UpperCase ==
    {"A","B","C","D","E","F","G","H","I","J","K","L","M",
     "N","O","P","Q","R","S","T","U","V","W","X","Y","Z"}

Digits == {"0","1","2","3","4","5","6","7","8","9"}

\* [a-zA-Z]
Alpha == LowerCase \cup UpperCase

\* [a-zA-Z0-9_$]
JsIdChars == Alpha \cup Digits \cup {"_", "$"}

\* [a-zA-Z0-9_]
PyIdChars == Alpha \cup Digits \cup {"_"}

\* \s restricted to the white space the generated texts contain
WhiteSpace == {" ", "\t", "\n", "\r"}

\* the characters `.' does not match, and after which ^ matches under /m
LineTerminators == {"\n", "\r"}

----------------------------------------------------------------------------
(* String primitives of the JavaScript runtime *)

CharAt(s, i) == IF i >= 0 /\ i < Len(s) THEN s[i + 1] ELSE ""

\* s.substring(from, to) for 0 <= from <= to
Substring(s, from, to) ==
    SubSeq(s, from + 1, IF to > Len(s) THEN Len(s) ELSE to)

\* s.startsWith(w, i)
StartsWithAt(s, i, w) ==
    /\ i + Len(w) <= Len(s)
    /\ SubSeq(s, i + 1, i + Len(w)) = w

StartsWith(s, w) == StartsWithAt(s, 0, w)

EndsWith(s, w) ==
    /\ Len(w) <= Len(s)
    /\ SubSeq(s, Len(s) - Len(w) + 1, Len(s)) = w

\* s.includes(w)
Includes(s, w) == \E i \in 0..Len(s) : StartsWithAt(s, i, w)

\* s.indexOf(c, from) for a single character, -1 when absent
RECURSIVE IndexOfChar(_, _, _)
IndexOfChar(s, c, from) ==
    IF from >= Len(s) THEN -1
    ELSE IF s[from + 1] = c THEN from
    ELSE IndexOfChar(s, c, from + 1)

\* s.split(sep) for a single-character separator
RECURSIVE Split(_, _)
Split(s, sep) ==
    LET k == IndexOfChar(s, sep, 0)
    IN  IF k = -1 THEN <<s>>
        ELSE <<Substring(s, 0, k)>> \o Split(Substring(s, k + 1, Len(s)), sep)

RECURSIVE TrimStart(_)
TrimStart(s) ==
    IF s # <<>> /\ Head(s) \in WhiteSpace THEN TrimStart(Tail(s)) ELSE s

RECURSIVE TrimEnd(_)
TrimEnd(s) ==
    IF s # <<>> /\ s[Len(s)] \in WhiteSpace
    THEN TrimEnd(SubSeq(s, 1, Len(s) - 1)) ELSE s

\* s.trim()
Trim(s) == TrimEnd(TrimStart(s))

\* a filter that lets every record through
KeepAllTypes(entities, type) == entities

\* array.filter(pred) for the two filters of the analyzers
RECURSIVE FilterType(_, _)
FilterType(entities, type) ==
    IF entities = <<>> THEN <<>>
    ELSE IF Head(entities).type = type
         THEN <<Head(entities)>> \o FilterType(Tail(entities), type)
         ELSE FilterType(Tail(entities), type)

----------------------------------------------------------------------------
(* Regular expressions of the extractors.                                  *)
(* A match attempt at one start offset returns the match the backtracking  *)
(* engine finds there; exec scans the start offsets from lastIndex on.     *)

NoMatch == [ok |-> FALSE, index |-> 0, end |-> 0, name |-> <<>>]

Matched(i, e, n) == [ok |-> TRUE, index |-> i, end |-> e, name |-> n]

\* offset of the first character at or after i that is not in class C
RECURSIVE SkipClass(_, _, _)
SkipClass(s, i, C) ==
    IF i < Len(s) /\ s[i + 1] \in C THEN SkipClass(s, i + 1, C) ELSE i

\* offset of the first character at or after i that is in class C (Len(s) if none)
RECURSIVE SkipUntil(_, _, _)
SkipUntil(s, i, C) ==
    IF i < Len(s) /\ s[i + 1] \notin C THEN SkipUntil(s, i + 1, C) ELSE i

KwFunction == <<"f","u","n","c","t","i","o","n">>
KwConst == <<"c","o","n","s","t">>
KwLet == <<"l","e","t">>
KwVar == <<"v","a","r">>
KwAsync == <<"a","s","y","n","c">>
KwArrow == <<"=",">">>
KwClass == <<"c","l","a","s","s">>
KwDef == <<"d","e","f">>
KwFunc == <<"f","u","n","c">>

\* /function\s+([a-zA-Z0-9_$]+)\s*\(/g
FunctionDeclAt(s, i) ==
    LET a == i + Len(KwFunction)
        b == SkipClass(s, a, WhiteSpace)
        c == SkipClass(s, b, JsIdChars)
        d == SkipClass(s, c, WhiteSpace)
    IN  IF /\ StartsWithAt(s, i, KwFunction)
           /\ b > a
           /\ c > b
           /\ CharAt(s, d) = "("
        THEN Matched(i, d + 1, Substring(s, b, c))
        ELSE NoMatch

\* the lazy `.*?\)\s*=>': the nearest ")" on the line that "=>" follows
RECURSIVE ArrowClose(_, _)
ArrowClose(s, n) ==
    IF n >= Len(s) THEN -1
    ELSE IF /\ s[n + 1] = ")"
            /\ StartsWithAt(s, SkipClass(s, n + 1, WhiteSpace), KwArrow)
         THEN SkipClass(s, n + 1, WhiteSpace) + Len(KwArrow)
    ELSE IF s[n + 1] \in LineTerminators THEN -1
    ELSE ArrowClose(s, n + 1)

\* /(?:const|let|var)\s+([a-zA-Z0-9_$]+)\s*=\s*(?:async\s*)?\(.*?\)\s*=>/g
ArrowFunctionAt(s, i) ==
    LET kw == IF StartsWithAt(s, i, KwConst) THEN Len(KwConst)
              ELSE IF StartsWithAt(s, i, KwLet) THEN Len(KwLet)
              ELSE IF StartsWithAt(s, i, KwVar) THEN Len(KwVar)
              ELSE 0
        a == i + kw
        b == SkipClass(s, a, WhiteSpace)
        c == SkipClass(s, b, JsIdChars)
        d == SkipClass(s, c, WhiteSpace)
        e == SkipClass(s, d + 1, WhiteSpace)
        g == IF StartsWithAt(s, e, KwAsync)
             THEN SkipClass(s, e + Len(KwAsync), WhiteSpace) ELSE e
        h == ArrowClose(s, g + 1)
    IN  IF /\ kw > 0
           /\ b > a
           /\ c > b
           /\ CharAt(s, d) = "="
           /\ CharAt(s, g) = "("
           /\ h # -1
        THEN Matched(i, h, Substring(s, b, c))
        ELSE NoMatch

\* /([a-zA-Z0-9_$]+)\s*\([^)]*\)\s*{/g
MethodAt(s, i) ==
    LET c == SkipClass(s, i, JsIdChars)
        d == SkipClass(s, c, WhiteSpace)
        e == SkipUntil(s, d + 1, {")"})
        g == SkipClass(s, e + 1, WhiteSpace)
    IN  IF /\ c > i
           /\ CharAt(s, d) = "("
           /\ CharAt(s, e) = ")"
           /\ CharAt(s, g) = "{"
        THEN Matched(i, g + 1, Substring(s, i, c))
        ELSE NoMatch

\* /(?:^|\s)class\s+([a-zA-Z][a-zA-Z0-9_$]*)(?:\s|\{|$)/gm
\* The match starts AT the white-space character that precedes the keyword
\* when the keyword is not at the start of a line.
JsClassAt(s, i) ==
    LET atLineStart == i = 0 \/ CharAt(s, i - 1) \in LineTerminators
        k == IF atLineStart /\ StartsWithAt(s, i, KwClass) THEN i
             ELSE IF CharAt(s, i) \in WhiteSpace /\ StartsWithAt(s, i + 1, KwClass)
                  THEN i + 1
             ELSE -1
        a == k + Len(KwClass)
        b == SkipClass(s, a, WhiteSpace)
        c == SkipClass(s, b + 1, JsIdChars)
    IN  IF /\ k # -1
           /\ b > a
           /\ CharAt(s, b) \in Alpha
        THEN IF CharAt(s, c) \in WhiteSpace \cup {"{"}
             THEN Matched(i, c + 1, Substring(s, b, c))
             ELSE IF c = Len(s)
                  THEN Matched(i, c, Substring(s, b, c))
                  ELSE NoMatch
        ELSE NoMatch

\* /def\s+([a-zA-Z0-9_]+)\s*\(/g
PyDefAt(s, i) ==
    LET a == i + Len(KwDef)
        b == SkipClass(s, a, WhiteSpace)
        c == SkipClass(s, b, PyIdChars)
        d == SkipClass(s, c, WhiteSpace)
    IN  IF /\ StartsWithAt(s, i, KwDef)
           /\ b > a
           /\ c > b
           /\ CharAt(s, d) = "("
        THEN Matched(i, d + 1, Substring(s, b, c))
        ELSE NoMatch

\* the greedy `\(.*\)\s*:' : the LAST ")" of the line that ":" follows;
\* n runs down from the end of the line; -1 when there is none
RECURSIVE PyBasesClose(_, _, _)
PyBasesClose(s, open, n) ==
    IF n <= open THEN -1
    ELSE IF /\ CharAt(s, n) = ")"
            /\ CharAt(s, SkipClass(s, n + 1, WhiteSpace)) = ":"
         THEN SkipClass(s, n + 1, WhiteSpace) + 1
    ELSE PyBasesClose(s, open, n - 1)

\* /class\s+([a-zA-Z0-9_]+)\s*(?:\(.*\))?\s*:/g
PyClassAt(s, i) ==
    LET a == i + Len(KwClass)
        b == SkipClass(s, a, WhiteSpace)
        c == SkipClass(s, b, PyIdChars)
        d == SkipClass(s, c, WhiteSpace)
        eol == SkipUntil(s, d, LineTerminators)
        h == PyBasesClose(s, d, eol - 1)
    IN  IF /\ StartsWithAt(s, i, KwClass)
           /\ b > a
           /\ c > b
        THEN IF CharAt(s, d) = "(" /\ h # -1
             THEN Matched(i, h, Substring(s, b, c))
             ELSE IF CharAt(s, d) = ":"
                  THEN Matched(i, d + 1, Substring(s, b, c))
                  ELSE NoMatch
        ELSE NoMatch

\* /func\s+(?:\([^)]*\)\s+)?([a-zA-Z0-9_]+)\s*\(/g
GoFuncAt(s, i) ==
    LET a == i + Len(KwFunc)
        b == SkipClass(s, a, WhiteSpace)
        r == SkipUntil(s, b + 1, {")"})
        r2 == SkipClass(s, r + 1, WhiteSpace)
        recv == CharAt(s, b) = "(" /\ CharAt(s, r) = ")" /\ r2 > r + 1
        n == IF recv THEN r2 ELSE b
        c == SkipClass(s, n, PyIdChars)
        d == SkipClass(s, c, WhiteSpace)
    IN  IF /\ StartsWithAt(s, i, KwFunc)
           /\ b > a
           /\ c > n
           /\ CharAt(s, d) = "("
        THEN Matched(i, d + 1, Substring(s, n, c))
        ELSE NoMatch

MatchAt(pattern, s, i) ==
    CASE pattern = "functionDecl" -> FunctionDeclAt(s, i)
      [] pattern = "arrowFunction" -> ArrowFunctionAt(s, i)
      [] pattern = "method" -> MethodAt(s, i)
      [] pattern = "jsClass" -> JsClassAt(s, i)
      [] pattern = "pyDef" -> PyDefAt(s, i)
      [] pattern = "pyClass" -> PyClassAt(s, i)
      [] pattern = "goFunc" -> GoFuncAt(s, i)

\* pattern.exec(content) with pattern.lastIndex = from: the leftmost match.
\* ExecAt is handed the attempt at offset from.
RECURSIVE Exec(_, _, _)
RECURSIVE ExecAt(_, _, _, _)
ExecAt(pattern, s, from, attempt) ==
    IF attempt.ok THEN attempt ELSE Exec(pattern, s, from + 1)

Exec(pattern, s, from) ==
    IF from > Len(s) THEN NoMatch
    ELSE ExecAt(pattern, s, from, MatchAt(pattern, s, from))

\* while ((match = pattern.exec(content)) !== null): all matches in order.
\* MatchesFrom is handed the match exec just returned.
RECURSIVE MatchesFrom(_, _, _)
MatchesFrom(pattern, s, m) ==
    IF ~m.ok THEN <<>>
    ELSE <<m>> \o MatchesFrom(pattern, s,
                      Exec(pattern, s, IF m.end = m.index THEN m.end + 1 ELSE m.end))

MatchAll(pattern, s, from) == MatchesFrom(pattern, s, Exec(pattern, s, from))

----------------------------------------------------------------------------
(* Paths (node:path, POSIX flavour) *)

UpperSeq ==
    <<"A","B","C","D","E","F","G","H","I","J","K","L","M",
      "N","O","P","Q","R","S","T","U","V","W","X","Y","Z">>

LowerSeq ==
    <<"a","b","c","d","e","f","g","h","i","j","k","l","m",
      "n","o","p","q","r","s","t","u","v","w","x","y","z">>

\* s.toLowerCase()
ToLowerCase(s) ==
    [i \in 1..Len(s) |->
        IF s[i] \in UpperCase
        THEN LowerSeq[CHOOSE k \in 1..26 : UpperSeq[k] = s[i]]
        ELSE s[i]]

\* s.lastIndexOf(c), -1 when absent
RECURSIVE LastIndexOfChar(_, _, _)
LastIndexOfChar(s, c, from) ==
    IF from < 0 THEN -1
    ELSE IF CharAt(s, from) = c THEN from
    ELSE LastIndexOfChar(s, c, from - 1)

\* path.basename(p)
Basename(p) == Substring(p, LastIndexOfChar(p, "/", Len(p) - 1) + 1, Len(p))

\* path.extname(p): from the last "." of the base name, "" when there is none
\* or when it is the first character of the base name
Extname(p) ==
    LET base == Basename(p)
        dot == LastIndexOfChar(base, ".", Len(base) - 1)
    IN  IF dot <= 0 THEN <<>> ELSE Substring(base, dot, Len(base))

\* the non-empty segments of a path
RECURSIVE NonEmpty(_)
NonEmpty(segs) ==
    IF segs = <<>> THEN <<>>
    ELSE IF Head(segs) = <<>> THEN NonEmpty(Tail(segs))
    ELSE <<Head(segs)>> \o NonEmpty(Tail(segs))

Segments(p) == NonEmpty(Split(p, "/"))

\* segs.join("/")
RECURSIVE Join(_)
Join(segs) ==
    IF segs = <<>> THEN <<>>
    ELSE IF Len(segs) = 1 THEN Head(segs)
    ELSE Head(segs) \o <<"/">> \o Join(Tail(segs))

\* length of the common prefix of two segment lists
RECURSIVE CommonPrefix(_, _)
CommonPrefix(a, b) ==
    IF a # <<>> /\ b # <<>> /\ Head(a) = Head(b)
    THEN 1 + CommonPrefix(Tail(a), Tail(b))
    ELSE 0

\* path.relative(from, to) for absolute paths
Relative(from, to) ==
    LET f == Segments(from)
        t == Segments(to)
        n == CommonPrefix(f, t)
        ups == [i \in 1..(Len(f) - n) |-> <<".", ".">>]
    IN  Join(ups \o SubSeq(t, n + 1, Len(t)))

\* the process working directory path.resolve starts from
Cwd == <<"/">>

\* path.resolve(p): absolute, without a trailing slash
Resolve(p) ==
    IF StartsWith(p, <<"/">>) THEN <<"/">> \o Join(Segments(p))
    ELSE <<"/">> \o Join(Segments(Cwd) \o Segments(p))

----------------------------------------------------------------------------
(* fileUtils: reading files and the language of a file *)

\* readFileContent: the text, or '' when fs.readFileSync throws
readFileContent(fs, filePath) ==
    IF /\ filePath \in DOMAIN fs
       /\ fs[filePath].kind = "file"
       /\ fs[filePath].readable
    THEN fs[filePath].text
    ELSE <<>>

ExtJs == <<".","j","s">>
ExtJsx == <<".","j","s","x">>
ExtTs == <<".","t","s">>
ExtTsx == <<".","t","s","x">>
ExtPy == <<".","p","y">>
ExtJava == <<".","j","a","v","a">>
ExtCs == <<".","c","s">>
ExtGo == <<".","g","o">>
ExtRb == <<".","r","b">>
ExtPhp == <<".","p","h","p">>
ExtSwift == <<".","s","w","i","f","t">>
ExtC == <<".","c">>
ExtCpp == <<".","c","p","p">>
ExtH == <<".","h">>
ExtHpp == <<".","h","p","p">>

SUPPORTED_EXTENSIONS ==
    <<ExtJs, ExtTs, ExtJsx, ExtTsx, ExtPy, ExtJava, ExtCs, ExtGo,
      ExtRb, ExtPhp, ExtSwift, ExtC, ExtCpp, ExtH, ExtHpp>>

\* a mapping that knows no extension
LanguageUnknown(filePath) == "unknown"

getFileLanguage(filePath) ==
    LET ext == ToLowerCase(Extname(filePath))
    IN  CASE ext \in {ExtJs, ExtJsx} -> "javascript"
          [] ext \in {ExtTs, ExtTsx} -> "typescript"
          [] ext = ExtPy -> "python"
          [] ext = ExtJava -> "java"
          [] ext = ExtCs -> "csharp"
          [] ext = ExtGo -> "go"
          [] ext = ExtRb -> "ruby"
          [] ext = ExtPhp -> "php"
          [] ext = ExtSwift -> "swift"
          [] ext \in {ExtC, ExtH} -> "c"
          [] ext \in {ExtCpp, ExtHpp} -> "cpp"
          [] OTHER -> "unknown"

----------------------------------------------------------------------------
(* Offset-to-line lookup of the script-family extractor *)

\* the offset at which each line starts
RECURSIVE LinePositionsFrom(_, _)
LinePositionsFrom(lines, position) ==
    IF lines = <<>> THEN <<>>
    ELSE <<position>> \o LinePositionsFrom(Tail(lines), position + Len(Head(lines)) + 1)

LinePositions(content) == LinePositionsFrom(Split(content, "\n"), 0)

\* the binary search over linePositions: the 0-based index mid of the line
\* that holds matchPosition, or -1 when the loop ends without finding one
RECURSIVE BinarySearch(_, _, _, _)
BinarySearch(linePositions, matchPosition, low, high) ==
    IF low > high THEN -1
    ELSE LET mid == (low + high) \div 2
         IN  IF /\ linePositions[mid + 1] <= matchPosition
                /\ \/ mid = Len(linePositions) - 1
                   \/ linePositions[mid + 2] > matchPosition
             THEN mid
             ELSE IF linePositions[mid + 1] > matchPosition
                  THEN BinarySearch(linePositions, matchPosition, low, mid - 1)
                  ELSE BinarySearch(linePositions, matchPosition, mid + 1, high)

\* upToMatch.split('\n').length
LinesUpTo(content, index) == Len(Split(Substring(content, 0, index), "\n"))

----------------------------------------------------------------------------
(* JSParser *)

\* an extractor that skips no name
NoReservedWords == {}

\* reservedWords
ReservedWords ==
    { <<"i","f">>, <<"f","o","r">>, <<"w","h","i","l","e">>,
      <<"s","w","i","t","c","h">>, <<"c","a","t","c","h">> }

Entity(name, line, filePath, relativePath, type) ==
    [name |-> name, line |-> line, file |-> Basename(filePath),
     relativePath |-> relativePath, type |-> type]

\* the body of the while loop of JSParser.findFunctions for one pattern
RECURSIVE JsFunctionsOfMatches(_, _, _, _)
JsFunctionsOfMatches(ms, linePositions, filePath, relativePath) ==
    IF ms = <<>> THEN <<>>
    ELSE LET m == Head(ms)
             r == BinarySearch(linePositions, m.index, 0, Len(linePositions) - 1)
             lineNumber == IF r = -1 THEN 1 ELSE r + 1
             rest == JsFunctionsOfMatches(Tail(ms), linePositions, filePath, relativePath)
         IN  IF m.name \in ReservedWords THEN rest
             ELSE <<Entity(m.name, lineNumber, filePath, relativePath, "function")>> \o rest

JsFunctionPatterns == <<"functionDecl", "arrowFunction", "method">>

\* JSParser.findFunctions: the records it pushes, pattern by pattern
JsFindFunctions(content, filePath, relativePath) ==
    LET lp == LinePositions(content)
        of(p) == JsFunctionsOfMatches(MatchAll(p, content, 0), lp, filePath, relativePath)
    IN  of(JsFunctionPatterns[1]) \o of(JsFunctionPatterns[2]) \o of(JsFunctionPatterns[3])

\* the comment/string rejection shared by the script and indentation families
RejectedLine(lineContent, commentMark) ==
    \/ StartsWith(Trim(lineContent), commentMark)
    \/ /\ Includes(lineContent, <<"\"">> \o KwClass)
       /\ ~Includes(lineContent, KwClass \o <<" ">>)
    \/ /\ Includes(lineContent, <<"'">> \o KwClass)
       /\ ~Includes(lineContent, KwClass \o <<" ">>)

\* the table JSParser.findClasses builds: only when the entity list is empty
JsClassLinePositions(content, entities) ==
    IF Len(entities) = 0 THEN LinePositions(content) ELSE <<>>

\* the body of the while loop of JSParser.findClasses
RECURSIVE JsClassesOfMatches(_, _, _, _, _, _)
JsClassesOfMatches(ms, foundClasses, linePositions, lines, filePath, relativePath) ==
    IF ms = <<>> THEN <<>>
    ELSE LET m == Head(ms)
             classKey == <<m.name, filePath>>
             r == BinarySearch(linePositions, m.index, 0, Len(linePositions) - 1)
             lineNumber == IF r = -1 THEN 0 ELSE r
             lineContent == lines[lineNumber + 1]
         IN  IF classKey \in foundClasses
             THEN JsClassesOfMatches(Tail(ms), foundClasses, linePositions, lines,
                                     filePath, relativePath)
             ELSE IF RejectedLine(lineContent, <<"/", "/">>)
             THEN JsClassesOfMatches(Tail(ms), foundClasses, linePositions, lines,
                                     filePath, relativePath)
             ELSE <<Entity(m.name, lineNumber + 1, filePath, relativePath, "class")>>
                  \o JsClassesOfMatches(Tail(ms), foundClasses \cup {classKey},
                                        linePositions, lines, filePath, relativePath)

\* JSParser.findClasses: the records it pushes after those already in entities
JsFindClasses(content, filePath, relativePath, entities) ==
    JsClassesOfMatches(MatchAll("jsClass", content, 0), {},
                       JsClassLinePositions(content, entities),
                       Split(content, "\n"), filePath, relativePath)

----------------------------------------------------------------------------
(* PythonParser *)

RECURSIVE UpToFunctionsOfMatches(_, _, _, _)
UpToFunctionsOfMatches(ms, content, filePath, relativePath) ==
    IF ms = <<>> THEN <<>>
    ELSE <<Entity(Head(ms).name, LinesUpTo(content, Head(ms).index),
                  filePath, relativePath, "function")>>
         \o UpToFunctionsOfMatches(Tail(ms), content, filePath, relativePath)

PyFindFunctions(content, filePath, relativePath) ==
    UpToFunctionsOfMatches(MatchAll("pyDef", content, 0), content, filePath, relativePath)

RECURSIVE PyClassesOfMatches(_, _, _, _, _, _)
PyClassesOfMatches(ms, foundClasses, content, lines, filePath, relativePath) ==
    IF ms = <<>> THEN <<>>
    ELSE LET m == Head(ms)
             classKey == <<m.name, filePath>>
             lineNumber == LinesUpTo(content, m.index)
             lineContent == IF lineNumber > 0 /\ lineNumber <= Len(lines)
                            THEN lines[lineNumber] ELSE <<>>
         IN  IF classKey \in foundClasses
             THEN PyClassesOfMatches(Tail(ms), foundClasses, content, lines,
                                     filePath, relativePath)
             ELSE IF RejectedLine(lineContent, <<"#">>)
             THEN PyClassesOfMatches(Tail(ms), foundClasses, content, lines,
                                     filePath, relativePath)
             ELSE <<Entity(m.name, lineNumber, filePath, relativePath, "class")>>
                  \o PyClassesOfMatches(Tail(ms), foundClasses \cup {classKey},
                                        content, lines, filePath, relativePath)

PyFindClasses(content, filePath, relativePath) ==
    PyClassesOfMatches(MatchAll("pyClass", content, 0), {}, content,
                       Split(content, "\n"), filePath, relativePath)

----------------------------------------------------------------------------
(* GoParser *)

\* an extractor for Go that looks for class declarations
GoFindClasses(content, filePath, relativePath) ==
    PyFindClasses(content, filePath, relativePath)

GoFindFunctions(content, filePath, relativePath) ==
    UpToFunctionsOfMatches(MatchAll("goFunc", content, 0), content, filePath, relativePath)

----------------------------------------------------------------------------
(* Dispatcher and parseFile *)

getParserForFile(filePath) ==
    LET language == getFileLanguage(filePath)
    IN  CASE language \in {"javascript", "typescript"} -> "JSParser"
          [] language = "python" -> "PythonParser"
          [] language = "go" -> "GoParser"
          [] OTHER -> "JSParser"

\* JSParser.parseFile after findFunctions has pushed fns
JsParseClasses(content, filePath, relativePath, fns) ==
    fns \o JsFindClasses(content, filePath, relativePath, fns)

\* the body of parseFile of the three parsers
ParseContent(parser, content, filePath, relativePath) ==
    CASE parser = "JSParser" ->
           JsParseClasses(content, filePath, relativePath,
                          JsFindFunctions(content, filePath, relativePath))
      [] parser = "PythonParser" ->
           PyFindFunctions(content, filePath, relativePath)
           \o PyFindClasses(content, filePath, relativePath)
      [] parser = "GoParser" ->
           GoFindFunctions(content, filePath, relativePath)

\* parser.parseFile(filePath, basePath)
parseFile(parser, fs, filePath, basePath) ==
    ParseContent(parser, readFileContent(fs, filePath), filePath,
                 IF basePath # <<>> THEN Relative(basePath, filePath) ELSE filePath)

\* the body of the for loop of getFunctions / getClasses for one file
EntitiesOfFile(fs, file, normalizedPath, type) ==
    FilterType(parseFile(getParserForFile(file), fs, file, normalizedPath), type)

----------------------------------------------------------------------------
(* fileUtils: the ignore file and its translation *)

\* s.replace(/\\/g, '/')
NormalizeSlashes(s) == [i \in 1..Len(s) |-> IF s[i] = "\\" THEN "/" ELSE s[i]]

GitignoreName == <<".","g","i","t","i","g","n","o","r","e">>

\* path.join(dirPath, '.gitignore')
GitignorePath(dirPath) ==
    IF EndsWith(dirPath, <<"/">>) THEN dirPath \o GitignoreName
    ELSE dirPath \o <<"/">> \o GitignoreName

\* lines.map(trim).filter(nonempty and not a comment)
RECURSIVE GitignoreLines(_)
GitignoreLines(lines) ==
    IF lines = <<>> THEN <<>>
    ELSE LET line == Trim(Head(lines))
         IN  IF Len(line) > 0 /\ ~StartsWith(line, <<"#">>)
             THEN <<line>> \o GitignoreLines(Tail(lines))
             ELSE GitignoreLines(Tail(lines))

\* a reader that does not notice that the file cannot be read
readGitignoreUnchecked(fs, dirPath) ==
    IF GitignorePath(dirPath) \notin DOMAIN fs THEN <<>>
    ELSE GitignoreLines(Split(fs[GitignorePath(dirPath)].text, "\n"))

\* readGitignore: [] when the file is missing and when reading it throws
readGitignore(fs, dirPath) ==
    LET gitignorePath == GitignorePath(dirPath)
    IN  IF gitignorePath \notin DOMAIN fs THEN <<>>
        ELSE IF fs[gitignorePath].kind # "file" \/ ~fs[gitignorePath].readable THEN <<>>
        ELSE GitignoreLines(Split(fs[gitignorePath].text, "\n"))

\* a translation that leaves a trailing slash as it is (no "**" appended)
ConvertPatternKeepSlash(pattern, normalizedBasePath) ==
    normalizedBasePath \o <<"/">>
    \o (IF StartsWith(pattern, <<"/">>)
        THEN Substring(pattern, 1, Len(pattern)) ELSE pattern)

\* the callback of patterns.map in convertGitignorePatternsToGlob
ConvertPattern(pattern, normalizedBasePath) ==
    LET unslashed == IF StartsWith(pattern, <<"/">>)
                     THEN Substring(pattern, 1, Len(pattern)) ELSE pattern
        normalizedPattern == IF EndsWith(unslashed, <<"/">>)
                             THEN unslashed \o <<"*","*">> ELSE unslashed
    IN  IF StartsWith(normalizedPattern, <<"!">>)
        THEN <<"!">> \o normalizedBasePath \o <<"/">>
             \o Substring(normalizedPattern, 1, Len(normalizedPattern))
        ELSE normalizedBasePath \o <<"/">> \o normalizedPattern

\* a translation that returns the rules in reverse order
ConvertReversed(patterns, basePath) ==
    [i \in 1..Len(patterns) |->
        ConvertPattern(patterns[Len(patterns) + 1 - i], NormalizeSlashes(basePath))]

\* patterns.map(...) over the lines of the ignore file
convertGitignorePatternsToGlob(patterns, basePath) ==
    [i \in 1..Len(patterns) |-> ConvertPattern(patterns[i], NormalizeSlashes(basePath))]

\* no directory ignored by default
NoCommonIgnores == <<>>

\* the directories that are always ignored
CommonIgnores ==
    << <<"n","o","d","e","_","m","o","d","u","l","e","s","/","*","*">>,
       <<"d","i","s","t","/","*","*">>,
       <<".","g","i","t","/","*","*">>,
       <<"c","o","v","e","r","a","g","e","/","*","*">>,
       <<"b","u","i","l","d","/","*","*">>,
       <<".","c","a","c","h","e","/","*","*">>,
       <<".","v","s","c","o","d","e","/","*","*">>,
       <<".","i","d","e","a","/","*","*">> >>

\* ignorePatterns of getFilesInDirectory for the lines readGitignore returned:
\* the translated rules, then the defaults
IgnorePatternsOf(gitignorePatterns, dirPath) ==
    convertGitignorePatternsToGlob(gitignorePatterns, NormalizeSlashes(dirPath))
    \o [i \in 1..Len(CommonIgnores) |->
          NormalizeSlashes(dirPath) \o <<"/">> \o CommonIgnores[i]]

IgnorePatterns(fs, dirPath) == IgnorePatternsOf(readGitignore(fs, dirPath), dirPath)

\* patterns of getFilesInDirectory: one per supported extension
SearchPatterns(dirPath) ==
    [i \in 1..Len(SUPPORTED_EXTENSIONS) |->
        NormalizeSlashes(dirPath) \o <<"/","*","*","/","*">> \o SUPPORTED_EXTENSIONS[i]]

----------------------------------------------------------------------------
(* glob(patterns, { nodir: true, ignore }) of the glob package.            *)
(* Search patterns are matched with dot: false, ignore patterns with       *)
(* dot: true and without negation (a leading "!" is an ordinary character).*)
(* Character classes, braces and extglobs are not modelled; no path or     *)
(* ignore line of the model contains them.                                 *)

\* one path segment against one pattern segment: `*' and `?' wild cards
RECURSIVE WildMatch(_, _)
WildMatch(p, name) ==
    IF p = <<>> THEN name = <<>>
    ELSE IF Head(p) = "*"
         THEN WildMatch(Tail(p), name) \/ (name # <<>> /\ WildMatch(p, Tail(name)))
    ELSE IF name = <<>> THEN FALSE
    ELSE IF Head(p) = "?" THEN WildMatch(Tail(p), Tail(name))
    ELSE Head(p) = Head(name) /\ WildMatch(Tail(p), Tail(name))

Hidden(name) == name # <<>> /\ Head(name) = "."

GlobStar == <<"*","*">>

RECURSIVE MatchSegments(_, _, _)
MatchSegments(pat, path, dot) ==
    IF pat = <<>> THEN path = <<>>
    ELSE IF Head(pat) = GlobStar
         THEN \/ MatchSegments(Tail(pat), path, dot)
              \/ /\ path # <<>>
                 /\ dot \/ ~Hidden(Head(path))
                 /\ MatchSegments(pat, Tail(path), dot)
    ELSE /\ path # <<>>
         /\ dot \/ ~Hidden(Head(path)) \/ Hidden(Head(pat))
         /\ WildMatch(Head(pat), Head(path))
         /\ MatchSegments(Tail(pat), Tail(path), dot)

\* an absolute pattern is matched against the absolute path, a relative one
\* against the path relative to the working directory
Minimatch(pattern, path, dot) ==
    IF StartsWith(pattern, <<"/">>)
    THEN MatchSegments(Segments(pattern), Segments(path), dot)
    ELSE MatchSegments(Segments(pattern), Segments(Relative(Cwd, path)), dot)

IsIgnored(path, ignore) ==
    \E i \in 1..Len(ignore) : Minimatch(ignore[i], path, TRUE)

IsSearched(path, patterns) ==
    \E i \in 1..Len(patterns) : Minimatch(patterns[i], path, FALSE)

----------------------------------------------------------------------------
(* Source texts the extractors are run on *)

LnFunction == KwFunction \o <<" ","f","(",")"," ","{","}">>
LnClass == KwClass \o <<" ","A"," ","{","}">>
LnCommentClass == <<"/","/"," ">> \o KwClass \o <<" ","F","o","o">>
LnStringClass ==
    KwConst \o <<" ","s"," ","="," ","\"">> \o KwClass \o <<" ","B","a","r","\"">>
LnArrow == KwConst \o <<" ","g"," ","="," ","(",")"," ","=",">"," ","1">>
LnIf == <<"i","f"," ","(","x",")"," ","{","}">>
LnDef == KwDef \o <<" ","f","(",")",":">>
LnPyClass == KwClass \o <<" ","A",":">>
LnGoFunc == KwFunc \o <<" ","f","(",")"," ","{","}">>
LnEmpty == <<>>

SourceLines ==
    { LnFunction, LnClass, LnCommentClass, LnStringClass, LnArrow, LnIf,
      LnDef, LnPyClass, LnGoFunc, LnEmpty }

\* lines.join("\n")
RECURSIVE JoinLines(_)
JoinLines(lines) ==
    IF lines = <<>> THEN <<>>
    ELSE IF Len(lines) = 1 THEN Head(lines)
    ELSE Head(lines) \o <<"\n">> \o JoinLines(Tail(lines))

Texts ==
    UNION { { JoinLines(ls) : ls \in [1..n -> SourceLines] } : n \in 1..MaxLines }

ExtMd == <<".","m","d">>

\* the extensions of the files handed to the dispatcher: the supported ones
\* and one that is not
HarnessExtensions ==
    { SUPPORTED_EXTENSIONS[i] : i \in 1..Len(SUPPORTED_EXTENSIONS) } \cup {ExtMd}

HarnessRoot == <<"/","r">>

----------------------------------------------------------------------------
(* The directory tree the server scans *)

ScanRoot == <<"/","r">>

FileX == <<"/","r","/","x",".","j","s">>
FileBuildX == <<"/","r","/","b","u","i","l","d","/","x",".","j","s">>
FileKeep == <<"/","r","/","l","o","g","s","/","k","e","e","p",".","p","y">>
FileDrop == <<"/","r","/","l","o","g","s","/","d","r","o","p",".","p","y">>
FileDeep == <<"/","r","/","a","/","b","/","d","e","e","p",".","j","s">>
FileNested == <<"/","r","/","l","i","b","/","l","o","g","s","/","z",".","g","o">>
FileModule == <<"/","r","/","n","o","d","e","_","m","o","d","u","l","e","s","/","m",".","j","s">>
FileNotes == <<"/","r","/","n","o","t","e","s",".","m","d">>
FileHidden == <<"/","r","/",".","h","i","d","/","h",".","j","s">>
DirPkg == <<"/","r","/","p","k","g",".","j","s">>

\* the order in which glob reports the entries it walks
TreeOrder ==
    <<FileX, FileBuildX, FileKeep, FileDrop, FileDeep, FileNested,
      FileModule, FileNotes, FileHidden, DirPkg>>

TreeText(path) ==
    CASE path = FileX -> JoinLines(<<LnFunction, LnClass>>)
      [] path = FileKeep -> JoinLines(<<LnDef, LnPyClass>>)
      [] path = FileDrop -> LnDef
      [] path = FileDeep -> LnArrow
      [] path = FileNested -> LnGoFunc
      [] OTHER -> LnFunction

\* the ignore files the tree is scanned with
IgnoreMissing == [present |-> FALSE, readable |-> FALSE, text |-> <<>>]
IgnoreNegation == [present |-> TRUE, readable |-> TRUE, text |-> <<"l","o","g","s","/","\n","!","l","o","g","s","/","k","e","e","p",".","p","y">>]
IgnoreLogs == [present |-> TRUE, readable |-> TRUE, text |-> <<"l","o","g","s","/">>]
IgnoreBuild == [present |-> TRUE, readable |-> TRUE, text |-> <<"b","u","i","l","d","/">>]
IgnoreAnchored == [present |-> TRUE, readable |-> TRUE, text |-> <<"#"," ","c","\n","\n"," ","/","x",".","j","s"," ">>]
IgnoreUnreadable == [present |-> TRUE, readable |-> FALSE, text |-> <<"l","o","g","s","/">>]

IgnoreDefaultsNegated ==
    [present |-> TRUE, readable |-> TRUE,
     text |-> <<"!","n","o","d","e","_","m","o","d","u","l","e","s","/","m",".","j","s","\n","!","b","u","i","l","d","/","x",".","j","s">>]

IgnoreFiles ==
    {IgnoreMissing, IgnoreNegation, IgnoreLogs, IgnoreBuild, IgnoreAnchored,
     IgnoreUnreadable, IgnoreDefaultsNegated}

\* the source files that may be unreadable
UnreadableChoices == {{}, {FileX}}

Tree(ignoreFile, unreadable) ==
    [p \in {TreeOrder[i] : i \in 1..Len(TreeOrder)}
           \cup (IF ignoreFile.present THEN {GitignorePath(ScanRoot)} ELSE {}) |->
        IF p = GitignorePath(ScanRoot)
        THEN [kind |-> "file", readable |-> ignoreFile.readable, text |-> ignoreFile.text]
        ELSE IF p = DirPkg
        THEN [kind |-> "dir", readable |-> TRUE, text |-> <<>>]
        ELSE [kind |-> "file", readable |-> p \notin unreadable, text |-> TreeText(p)]]

\* glob: the files (nodir) some search pattern matches and no ignore pattern does
RECURSIVE GlobWalk(_, _, _, _)
GlobWalk(fs, entries, patterns, ignore) ==
    IF entries = <<>> THEN <<>>
    ELSE LET e == Head(entries)
             rest == GlobWalk(fs, Tail(entries), patterns, ignore)
         IN  IF /\ e \in DOMAIN fs
                /\ fs[e].kind = "file"
                /\ IsSearched(e, patterns)
                /\ ~IsIgnored(e, ignore)
             THEN <<e>> \o rest
             ELSE rest

glob(fs, patterns, ignore) == GlobWalk(fs, TreeOrder, patterns, ignore)

\* what the glob call of getFilesInDirectory(dirPath, maxDepth) resolves with
GlobResult(fs, dirPath, maxDepth) ==
    glob(fs, SearchPatterns(dirPath), IgnorePatterns(fs, dirPath))

----------------------------------------------------------------------------
(* analyzers: the loop of getFunctions / getClasses *)

\* an accumulation that keeps only the records of the file just parsed
PushAllOverwrite(all, entities) == entities

\* allFunctions.push(...functions)
PushAll(all, entities) == all \o entities

RECURSIVE CollectEntities(_, _, _, _, _)
CollectEntities(fs, files, normalizedPath, type, all) ==
    IF files = <<>> THEN all
    ELSE CollectEntities(fs, Tail(files), normalizedPath, type,
                         PushAll(all, EntitiesOfFile(fs, Head(files), normalizedPath, type)))

EndpointType(endpoint) == IF endpoint = "/get_functions" THEN "function" ELSE "class"

----------------------------------------------------------------------------
(* The HTTP server: handlers, promises and timers *)

RequestIds == {"r1"}

Endpoints == {"/get_functions", "/get_classes"}

\* query.path: absent, absolute, relative to the working directory
QueryPaths == {<<>>, ScanRoot, <<"r">>}

\* query.maxDepth: absent or a decimal number
QueryDepths == {<<>>, <<"1">>}

DigitSeq == <<"0","1","2","3","4","5","6","7","8","9">>

\* parseInt(s, 10) of a string of decimal digits
RECURSIVE ParseInt(_)
ParseInt(s) ==
    IF s = <<>> THEN 0
    ELSE 10 * ParseInt(SubSeq(s, 1, Len(s) - 1))
         + (CHOOSE d \in 0..9 : DigitSeq[d + 1] = s[Len(s)])

DEFAULT_MAX_DEPTH == 3
DISCOVERY_TIMEOUT == 20000
OPERATION_TIMEOUT == 25000
RESPONSE_TIMEOUT == 30000

DiscoveryTimeoutMessage == "File search timed out after 20 seconds"
OperationTimeoutMessage == "Operation timed out after 25 seconds"

IdleRequest ==
    [pc |-> "idle", endpoint |-> "", path |-> <<>>, maxDepth |-> 0,
     normalizedPath |-> <<>>, startedAt |-> 0,
     discovery |-> "none", discoveredAt |-> 0, files |-> <<>>,
     status |-> 0, body |-> <<>>, error |-> "", respondedAt |-> 0, writes |-> 0,
     events |-> <<>>]

\* what a scan does to the file system, in the order it does it
Event(op, file) == [op |-> op, file |-> file]

\* getFilesInDirectory up to the race: the ignore file is read, glob starts
DiscoveryEvents(normalizedPath) ==
    << Event("readGitignore", GitignorePath(normalizedPath)),
       Event("glob", normalizedPath) >>

\* a loop that starts every parse before it collects any result
BatchedLoopEvents(files) ==
    [i \in 1..Len(files) |-> [op |-> "parseFile", file |-> files[i]]]
    \o [i \in 1..Len(files) |-> [op |-> "push", file |-> files[i]]]

\* the for loop of getFunctions / getClasses: parseFile reads the file and
\* returns before the next iteration starts
RECURSIVE LoopEvents(_)
LoopEvents(files) ==
    IF files = <<>> THEN <<>>
    ELSE << Event("parseFile", Head(files)), Event("push", Head(files)) >>
         \o LoopEvents(Tail(files))

\* the first promise to settle decides a race: a callback that comes later
\* finds the request no longer waiting
AlwaysPending(req) == req.pc # "idle"

Pending(req) == req.pc = "discovering"

\* a path that is never taken for missing
NeverMissing(path) == FALSE

\* if (!path)
PathMissing(path) == path = <<>>

\* res.writeHead(status); res.end(body)
Respond(req, status, body, error, at) ==
    [req EXCEPT !.pc = "responded", !.status = status, !.body = body,
                !.error = error, !.respondedAt = at, !.writes = @ + 1]

Due(t) == t.deadline <= now

\* timers run in the order of their deadlines
NextTimer(t) ==
    /\ t \in timers
    /\ Due(t)
    /\ \A u \in timers : u.deadline >= t.deadline

\* the durations the synchronous extraction loop may take
ExtractDurations(files) == IF files = <<>> THEN {0} ELSE {0, SlowExtractMs}

\* no lookup in progress
LookupIdle ==
    [pc |-> "idle", content |-> <<>>, linePositions |-> <<>>,
     matchPosition |-> 0, low |-> 0, high |-> -1, lineNumber |-> 0]

HarnessIdle ==
    /\ pPath = <<>>
    /\ pBase = <<>>
    /\ pEntities = <<>>
    /\ pFunctions = <<>>
    /\ pClasses = <<>>
    /\ pRan = {}
    /\ lookup = LookupIdle

ServerIdle ==
    /\ now = 0
    /\ reqs = [r \in RequestIds |-> IdleRequest]
    /\ timers = {}

Init ==
    /\ \E ignoreFile \in IgnoreFiles, unreadable \in UnreadableChoices :
          disk = Tree(ignoreFile, unreadable)
    /\ ServerIdle
    /\ HarnessIdle

harnessVars == <<pPath, pBase, pEntities, pFunctions, pClasses, pRan, lookup>>

\* The request callback up to its first await: res.setTimeout, the path
\* check of handleGetFunctions / handleGetClasses, the 25 s timer,
\* getFunctions / getClasses up to getFilesInDirectory, which reads the
\* ignore file, starts the 20 s timer and starts glob.
HandleRequest(r, endpoint, path, depth) ==
    /\ reqs[r].pc = "idle"
    /\ LET maxDepth == IF depth # <<>> THEN ParseInt(depth) ELSE DEFAULT_MAX_DEPTH
           req == [reqs[r] EXCEPT !.endpoint = endpoint, !.path = path,
                                  !.maxDepth = maxDepth, !.startedAt = now]
       IN  IF PathMissing(path)
           THEN /\ reqs' = [reqs EXCEPT ![r] =
                              Respond(req, 400, <<>>, "Path parameter is required", now)]
                /\ UNCHANGED timers
           ELSE /\ reqs' = [reqs EXCEPT ![r] =
                              [req EXCEPT !.pc = "discovering",
                                          !.normalizedPath = Resolve(path),
                                          !.discovery = "pending",
                                          !.events = DiscoveryEvents(Resolve(path))]]
                /\ timers' = timers \cup
                      { [rid |-> r, kind |-> "response", deadline |-> now + RESPONSE_TIMEOUT],
                        [rid |-> r, kind |-> "operation", deadline |-> now + OPERATION_TIMEOUT],
                        [rid |-> r, kind |-> "discovery", deadline |-> now + DISCOVERY_TIMEOUT] }
    /\ UNCHANGED <<disk, now, harnessVars>>

\* glob resolves first: getFilesInDirectory returns the files, the loop of
\* getFunctions / getClasses extracts them synchronously (no timer callback
\* can run meanwhile), the promise wins the race of the handler and the
\* handler writes the 200 response.
GlobResolves(r, duration) ==
    /\ Pending(reqs[r])
    /\ LET req == reqs[r]
           files == GlobResult(disk, req.normalizedPath, req.maxDepth)
           all == CollectEntities(disk, files, req.normalizedPath,
                                  EndpointType(req.endpoint), <<>>)
       IN  /\ duration \in ExtractDurations(files)
           /\ now' = now + duration
           /\ reqs' = [reqs EXCEPT ![r] =
                         Respond([req EXCEPT !.discovery = "done", !.discoveredAt = now,
                                             !.files = files,
                                             !.events = @ \o <<Event("settled", req.normalizedPath)>>
                                                          \o LoopEvents(files)],
                                 200, all, "", now + duration)]
    /\ UNCHANGED <<disk, timers, harnessVars>>

\* a 20 s timer that is shared by the scans: the timer of any scan times out
\* the discovery of request r
SharedDiscoveryTimerFires(r) ==
    /\ \E t \in timers :
          /\ t.kind = "discovery"
          /\ NextTimer(t)
          /\ Pending(reqs[r])
          /\ reqs' = [reqs EXCEPT ![r] =
                        Respond([reqs[r] EXCEPT !.discovery = "timeout",
                                                !.discoveredAt = now,
                                                !.files = <<>>,
                                                !.events = @ \o <<Event("settled", reqs[r].normalizedPath)>>],
                                200, <<>>, "", now)]
          /\ timers' = timers \ {t}
    /\ UNCHANGED <<disk, now, harnessVars>>

\* a 20 s timer whose rejection is not caught by getFilesInDirectory: the
\* analyzer rejects and the catch of the handler writes 500
DiscoveryTimerRejects(r) ==
    /\ \E t \in timers :
          /\ t.rid = r /\ t.kind = "discovery"
          /\ NextTimer(t)
          /\ IF Pending(reqs[r])
             THEN /\ reqs' = [reqs EXCEPT ![r] =
                                Respond([reqs[r] EXCEPT !.discovery = "timeout",
                                                        !.discoveredAt = now,
                                                        !.files = <<>>],
                                        500, <<>>, DiscoveryTimeoutMessage, now)]
             ELSE UNCHANGED reqs
          /\ timers' = timers \ {t}
    /\ UNCHANGED <<disk, now, harnessVars>>

\* The 20 s timer: timeoutPromise rejects.  If glob is still pending the
\* race rejects, the catch of getFilesInDirectory returns [], the analyzer
\* loops over no file and returns [], and the handler writes 200.
DiscoveryTimerFires(r) ==
    /\ \E t \in timers :
          /\ t.rid = r /\ t.kind = "discovery"
          /\ NextTimer(t)
          /\ IF Pending(reqs[r])
             THEN /\ reqs' = [reqs EXCEPT ![r] =
                                Respond([reqs[r] EXCEPT !.discovery = "timeout",
                                                        !.discoveredAt = now,
                                                        !.files = <<>>,
                                                        !.events = @ \o <<Event("settled", reqs[r].normalizedPath)>>],
                                        200, <<>>, "", now)]
             ELSE UNCHANGED reqs
          /\ timers' = timers \ {t}
    /\ UNCHANGED <<disk, now, harnessVars>>

\* a 25 s timer whose callback writes the 500 response itself, whether or
\* not the race of the handler has settled
OperationTimerWrites(r) ==
    /\ \E t \in timers :
          /\ t.rid = r /\ t.kind = "operation"
          /\ NextTimer(t)
          /\ timers' = timers \ {t}
          /\ reqs' = [reqs EXCEPT ![r] =
                        Respond(reqs[r], 500, <<>>, OperationTimeoutMessage, now)]
    /\ UNCHANGED <<disk, now, harnessVars>>

\* The 25 s timer: timeoutPromise rejects.  If the analyzer has not settled
\* the race of the handler rejects and the catch writes 500.
OperationTimerFires(r) ==
    /\ \E t \in timers :
          /\ t.rid = r /\ t.kind = "operation"
          /\ NextTimer(t)
          /\ timers' = timers \ {t}
          /\ reqs' = IF Pending(reqs[r])
                     THEN [reqs EXCEPT ![r] =
                             Respond(reqs[r], 500, <<>>, OperationTimeoutMessage, now)]
                     ELSE reqs
    /\ UNCHANGED <<disk, now, harnessVars>>

\* The 30 s socket timeout.  The callback res.setTimeout registered runs
\* (408) only while the response has not been written; once the response
\* has finished the event no longer reaches it.
ResponseTimeoutFires(r) ==
    /\ \E t \in timers :
          /\ t.rid = r /\ t.kind = "response"
          /\ NextTimer(t)
          /\ timers' = timers \ {t}
          /\ reqs' = IF Pending(reqs[r])
                     THEN [reqs EXCEPT ![r] = Respond(reqs[r], 408, <<>>, "Request timeout", now)]
                     ELSE reqs
    /\ UNCHANGED <<disk, now, harnessVars>>

\* time passes while the event loop is idle; a due timer runs first
Tick ==
    /\ timers # {}
    /\ \A t \in timers : ~Due(t)
    /\ now + TickMs <= MaxClock
    /\ now' = now + TickMs
    /\ UNCHANGED <<disk, reqs, timers, harnessVars>>

Next ==
    \/ \E r \in DOMAIN reqs, endpoint \in Endpoints, path \in QueryPaths, depth \in QueryDepths :
          HandleRequest(r, endpoint, path, depth)
    \/ \E r \in DOMAIN reqs, duration \in {0, SlowExtractMs} : GlobResolves(r, duration)
    \/ \E r \in DOMAIN reqs : DiscoveryTimerFires(r)
    \/ \E r \in DOMAIN reqs : OperationTimerFires(r)
    \/ \E r \in DOMAIN reqs : ResponseTimeoutFires(r)
    \/ Tick

Spec == Init /\ [][Next]_vars

----------------------------------------------------------------------------
(* Specification SpecParse: one file with a generated text goes through the *)
(* loop body of getFunctions and of getClasses.                            *)

InitParse ==
    /\ ServerIdle
    /\ pBase = HarnessRoot
    /\ \E ext \in HarnessExtensions : pPath = HarnessRoot \o <<"/","x">> \o ext
    /\ \E t \in Texts :
          disk = [p \in {pPath} |-> [kind |-> "file", readable |-> TRUE, text |-> t]]
    /\ pEntities = <<>>
    /\ pFunctions = <<>>
    /\ pClasses = <<>>
    /\ pRan = {}
    /\ lookup = LookupIdle

\* getFunctions, lines 22-31, for the file
LoopBodyGetFunctions ==
    /\ "functions" \notin pRan
    /\ pEntities' = parseFile(getParserForFile(pPath), disk, pPath, pBase)
    /\ pFunctions' = FilterType(pEntities', "function")
    /\ pRan' = pRan \cup {"functions"}
    /\ UNCHANGED <<disk, pPath, pBase, pClasses, lookup, now, reqs, timers>>

\* getClasses, lines 22-31, for the file
LoopBodyGetClasses ==
    /\ "classes" \notin pRan
    /\ pEntities' = parseFile(getParserForFile(pPath), disk, pPath, pBase)
    /\ pClasses' = FilterType(pEntities', "class")
    /\ pRan' = pRan \cup {"classes"}
    /\ UNCHANGED <<disk, pPath, pBase, pFunctions, lookup, now, reqs, timers>>

NextParse == LoopBodyGetFunctions \/ LoopBodyGetClasses

SpecParse == InitParse /\ [][NextParse]_vars

----------------------------------------------------------------------------
(* Properties of the request handlers and the collector, specification Spec *)

Range(seq) == { seq[i] : i \in 1..Len(seq) }

Responded(r) == reqs[r].pc = "responded"

\* C1: when discovery exceeds its 20 s budget the response is an explicit
\* failure, never a successful (200) response with an empty list.
C1_DiscoveryTimeoutIsFailure ==
    \A r \in RequestIds :
        (Responded(r) /\ reqs[r].discovery = "timeout") => reqs[r].status # 200

\* C2: the overall 25 s budget is enforced separately from the 20 s discovery
\* budget: a request whose discovery finished within its budget but whose
\* whole operation took more than 25 s is answered with the operation
\* timeout failure.
C2_OperationBudgetEnforced ==
    \A r \in RequestIds :
        ( /\ Responded(r)
          /\ reqs[r].discovery = "done"
          /\ reqs[r].discoveredAt - reqs[r].startedAt <= DISCOVERY_TIMEOUT
          /\ reqs[r].respondedAt - reqs[r].startedAt > OPERATION_TIMEOUT )
        => (reqs[r].status = 500 /\ reqs[r].error = OperationTimeoutMessage)

SameKey(a, b) ==
    a.name = b.name /\ a.type = b.type /\ a.relativePath = b.relativePath

\* C3: the array of a successful response holds no two records with the
\* same (name, type, relativePath).
C3_NoDuplicateRecords ==
    \A r \in RequestIds :
        (Responded(r) /\ reqs[r].status = 200) =>
            \A i, j \in 1..Len(reqs[r].body) :
                i # j => ~SameKey(reqs[r].body[i], reqs[r].body[j])

\* the number of directories between the scan root and the file
DirectoriesBelow(root, file) == Len(Segments(Relative(root, file))) - 1

\* C6: with maxDepth = 1 no file nested two directories below the root is
\* collected, and with maxDepth = 3 such a file is.
C6_DepthBoundHonoured ==
    \A r \in RequestIds :
        (Responded(r) /\ reqs[r].discovery = "done") =>
            /\ reqs[r].maxDepth = 1 =>
                  \A f \in Range(reqs[r].files) :
                      DirectoriesBelow(reqs[r].normalizedPath, f) < 2
            /\ reqs[r].maxDepth = 3 => FileDeep \in Range(reqs[r].files)

IgnoreLineLogs == <<"l","o","g","s","/">>
IgnoreLineKeep == <<"!","l","o","g","s","/","k","e","e","p",".","p","y">>

\* C7: with the ignore file "logs/" then "!logs/keep.py", logs/keep.py is
\* collected and the other files of logs/ are not.
C7_NegationReincludes ==
    \A r \in RequestIds :
        ( /\ Responded(r)
          /\ reqs[r].discovery = "done"
          /\ readGitignore(disk, reqs[r].normalizedPath)
                = <<IgnoreLineLogs, IgnoreLineKeep>> )
        => /\ FileKeep \in Range(reqs[r].files)
           /\ FileDrop \notin Range(reqs[r].files)

IsNegation(line) == StartsWith(line, <<"!">>)

IsDirectoryRule(line) == EndsWith(line, <<"/">>) /\ ~IsNegation(line)

\* <root>/d of the directory rule "d/" (or "/d/")
RuleDirectory(line, root) ==
    root \o <<"/">>
    \o Substring(line, IF StartsWith(line, <<"/">>) THEN 1 ELSE 0, Len(line) - 1)

Under(file, dir) == StartsWith(file, dir \o <<"/">>)

RemoveAt(seq, k) == SubSeq(seq, 1, k - 1) \o SubSeq(seq, k + 1, Len(seq))

\* what glob returns for the root when the ignore file holds these lines
CollectedWith(lines, root) ==
    glob(disk, SearchPatterns(root), IgnorePatternsOf(lines, root))

\* C8: for a line "d/" of an ignore file without negations, no file under
\* <root>/d/ at any depth is collected, and every file outside <root>/d/
\* that is collected when the line is left out is collected with it too
\* (a directory named d elsewhere in the tree is not excluded).
C8_DirectoryRuleExcludesSubtreeOnly ==
    \A r \in RequestIds :
        LET root == reqs[r].normalizedPath
            lines == readGitignore(disk, root)
        IN  ( /\ Responded(r)
              /\ reqs[r].discovery = "done"
              /\ \A k \in 1..Len(lines) : ~IsNegation(lines[k]) )
            => \A k \in 1..Len(lines) :
                  IsDirectoryRule(lines[k]) =>
                     /\ \A f \in Range(reqs[r].files) :
                           ~Under(f, RuleDirectory(lines[k], root))
                     /\ \A f \in Range(CollectedWith(RemoveAt(lines, k), root)) :
                           ~Under(f, RuleDirectory(lines[k], root))
                              => f \in Range(reqs[r].files)

\* the rule "logs/" has excluded logs/keep.py, which is collected without
\* it, and has kept lib/logs/z.go and x.js
C8_Witness ==
    \E r \in RequestIds :
        /\ Responded(r)
        /\ reqs[r].discovery = "done"
        /\ readGitignore(disk, reqs[r].normalizedPath) = <<IgnoreLineLogs>>
        /\ FileKeep \in Range(CollectedWith(<<>>, reqs[r].normalizedPath))
        /\ FileKeep \notin Range(reqs[r].files)
        /\ FileNested \in Range(reqs[r].files)
        /\ FileX \in Range(reqs[r].files)

Unreadable(file) == ~disk[file].readable

\* the records the loop body yields for a collected file of request r
RecordsOf(r, file) ==
    EntitiesOfFile(disk, file, reqs[r].normalizedPath, EndpointType(reqs[r].endpoint))

\* C10: when a collected file cannot be read the request still succeeds;
\* the array holds no record of that file and holds exactly the records of
\* the other collected files.
C10_UnreadableFileIsolated ==
    \A r \in RequestIds :
        (Responded(r) /\ reqs[r].discovery = "done") =>
            /\ reqs[r].status = 200
            /\ \A f \in Range(reqs[r].files) :
                  IF Unreadable(f)
                  THEN \A e \in Range(reqs[r].body) :
                          e.relativePath # Relative(reqs[r].normalizedPath, f)
                  ELSE Range(RecordsOf(r, f)) \subseteq Range(reqs[r].body)
            /\ \A e \in Range(reqs[r].body) :
                  \E f \in Range(reqs[r].files) :
                      ~Unreadable(f) /\ e \in Range(RecordsOf(r, f))

\* x.js was collected and could not be read, and the response carries the
\* records of the other files
C10_Witness ==
    \E r \in RequestIds :
        /\ Responded(r)
        /\ reqs[r].discovery = "done"
        /\ FileX \in Range(reqs[r].files)
        /\ Unreadable(FileX)
        /\ reqs[r].status = 200
        /\ \E e \in Range(reqs[r].body) :
              e.relativePath = Relative(reqs[r].normalizedPath, FileDeep)
        /\ \E e \in Range(reqs[r].body) :
              e.relativePath = Relative(reqs[r].normalizedPath, FileNested)

----------------------------------------------------------------------------
(* Properties of the extractors, specification SpecParse *)

ParsedText == disk[pPath].text

\* the parsed file is a JavaScript or TypeScript file
ScriptFile == getFileLanguage(pPath) \in {"javascript", "typescript"}

ParsedLines == Split(ParsedText, "\n")

\* line ln (1-based) of the parsed text declares "class <name>"
ClassKeywordOnLine(name, ln) ==
    /\ ln \in 1..Len(ParsedLines)
    /\ Includes(ParsedLines[ln], KwClass \o <<" ">> \o name)

\* C4: every class record of a script-family file carries the line on which
\* the class keyword of its declaration stands.
C4_ClassLineIsKeywordLine ==
    ScriptFile =>
        \A e \in Range(pEntities) :
            e.type = "class" => ClassKeywordOnLine(e.name, e.line)

\* the files made of one function declaration and one class declaration, in
\* the syntax of the extension
DeclarationFiles(ext) ==
    IF ext \in {ExtJs, ExtJsx, ExtTs, ExtTsx}
    THEN { <<LnFunction, LnClass>>, <<LnClass, LnFunction>> }
    ELSE IF ext = ExtPy
    THEN { <<LnDef, LnPyClass>>, <<LnPyClass, LnDef>> }
    ELSE {}

FunctionLines == {LnFunction, LnDef}

ClassLines == {LnClass, LnPyClass}

\* C5: for a file with exactly one function declaration and one class
\* declaration in the syntax of its extension, getFunctions yields exactly
\* one function record and getClasses exactly one class record, each with
\* the line of its declaration.
C5_OneRecordPerDeclaration ==
    \A ls \in DeclarationFiles(Extname(pPath)) :
        (ParsedText = JoinLines(ls) /\ pRan = {"functions", "classes"}) =>
            /\ Len(pFunctions) = 1
            /\ Len(pClasses) = 1
            /\ pFunctions[1].line \in 1..Len(ls)
            /\ ls[pFunctions[1].line] \in FunctionLines
            /\ pClasses[1].line \in 1..Len(ls)
            /\ ls[pClasses[1].line] \in ClassLines

NameFoo == <<"F","o","o">>
NameBar == <<"B","a","r">>

\* C9: the text `class Foo` inside a line comment and the text `class Bar`
\* inside a string literal never give a class record named Foo or Bar.
C9_CommentAndStringNotClasses ==
    ScriptFile =>
        \A e \in Range(pEntities) :
            e.type = "class" => e.name \notin {NameFoo, NameBar}

----------------------------------------------------------------------------
(* Properties of the collector and the handlers, continued (Spec) *)

IgnoreFileAbsentOrUnreadable(root) ==
    \/ GitignorePath(root) \notin DOMAIN disk
    \/ ~disk[GitignorePath(root)].readable

\* the file system with an empty, readable ignore file in the root
WithEmptyIgnore(fs, root) ==
    [p \in DOMAIN fs \cup {GitignorePath(root)} |->
        IF p = GitignorePath(root)
        THEN [kind |-> "file", readable |-> TRUE, text |-> <<>>]
        ELSE fs[p]]

\* C11: when the ignore file is missing or cannot be read, readGitignore
\* yields no rule, the scan succeeds with the default exclusions only and
\* collects the files it collects with an empty ignore file.
C11_IgnoreFileFailureAbsorbed ==
    \A r \in RequestIds :
        LET root == reqs[r].normalizedPath
        IN  ( /\ Responded(r)
              /\ reqs[r].discovery = "done"
              /\ IgnoreFileAbsentOrUnreadable(root) )
            => /\ readGitignore(disk, root) = <<>>
               /\ IgnorePatterns(disk, root) = IgnorePatternsOf(<<>>, root)
               /\ reqs[r].status = 200
               /\ reqs[r].files
                    = GlobResult(WithEmptyIgnore(disk, root), root, reqs[r].maxDepth)

\* the ignore file is there, cannot be read, and its rule "logs/" has
\* excluded nothing
C11_Witness ==
    \E r \in RequestIds :
        /\ Responded(r)
        /\ reqs[r].discovery = "done"
        /\ GitignorePath(reqs[r].normalizedPath) \in DOMAIN disk
        /\ ~disk[GitignorePath(reqs[r].normalizedPath)].readable
        /\ FileKeep \in Range(reqs[r].files)

PathRequiredMessage == "Path parameter is required"

\* C12: a request without a root path is answered at once with 400 'Path
\* parameter is required'; it reads no ignore file, starts no traversal, no
\* timer of a scan and no extraction.
C12_MissingPathRejected ==
    \A r \in RequestIds :
        (reqs[r].pc # "idle" /\ reqs[r].path = <<>>) =>
            /\ Responded(r)
            /\ reqs[r].status = 400
            /\ reqs[r].error = PathRequiredMessage
            /\ reqs[r].respondedAt = reqs[r].startedAt
            /\ reqs[r].events = <<>>
            /\ reqs[r].discovery = "none"
            /\ reqs[r].files = <<>>
            /\ \A t \in timers : t.rid = r => t.kind \notin {"discovery", "operation"}

C12_Witness ==
    \E r \in RequestIds :
        /\ Responded(r)
        /\ reqs[r].path = <<>>
        /\ reqs[r].status = 400

\* everything the extractor yields for a collected file of request r
ParsedOf(r, file) ==
    parseFile(getParserForFile(file), disk, file, reqs[r].normalizedPath)

\* the records of one kind the extractors yield for the files, file by file
RECURSIVE YieldOfType(_, _, _)
YieldOfType(r, files, type) ==
    IF files = <<>> THEN <<>>
    ELSE SelectSeq(ParsedOf(r, Head(files)), LAMBDA e : e.type = type)
         \o YieldOfType(r, Tail(files), type)

\* C14: the array of a scan holds exactly the records of the requested kind
\* that the extractors yield for the collected files: none of the other
\* kind, none dropped, none added.
C14_KindFilterExact ==
    \A r \in RequestIds :
        (Responded(r) /\ reqs[r].discovery = "done") =>
            /\ \A e \in Range(reqs[r].body) : e.type = EndpointType(reqs[r].endpoint)
            /\ reqs[r].body
                  = YieldOfType(r, reqs[r].files, EndpointType(reqs[r].endpoint))

\* a class scan over x.js, which holds a function and a class
C14_Witness ==
    \E r \in RequestIds :
        /\ Responded(r)
        /\ reqs[r].discovery = "done"
        /\ reqs[r].endpoint = "/get_classes"
        /\ FileX \in Range(reqs[r].files)
        /\ \E e \in Range(ParsedOf(r, FileX)) : e.type = "function"
        /\ \E e \in Range(reqs[r].body) :
              e.relativePath = Relative(reqs[r].normalizedPath, FileX)

DefaultDirectories ==
    { <<"n","o","d","e","_","m","o","d","u","l","e","s">>, <<"d","i","s","t">>, <<".","g","i","t">>, <<"c","o","v","e","r","a","g","e">>, <<"b","u","i","l","d">>, <<".","c","a","c","h","e">>, <<".","v","s","c","o","d","e">>, <<".","i","d","e","a">> }

\* C17: whatever the ignore file holds, negation lines included, no
\* collected file lies inside one of the default directories of the root.
C17_DefaultExclusionsNotNegatable ==
    \A r \in RequestIds :
        (Responded(r) /\ reqs[r].discovery = "done") =>
            \A f \in Range(reqs[r].files), d \in DefaultDirectories :
                ~Under(f, reqs[r].normalizedPath \o <<"/">> \o d)

IgnoreLineModule == <<"!","n","o","d","e","_","m","o","d","u","l","e","s","/","m",".","j","s">>

\* the ignore file negates node_modules/m.js, the file exists, and the scan
\* collected other files but not this one
C17_Witness ==
    \E r \in RequestIds :
        /\ Responded(r)
        /\ reqs[r].discovery = "done"
        /\ IgnoreLineModule \in Range(readGitignore(disk, reqs[r].normalizedPath))
        /\ FileModule \in DOMAIN disk
        /\ FileModule \notin Range(reqs[r].files)
        /\ FileX \in Range(reqs[r].files)

\* a regular file under the root with a supported extension that no ignore
\* rule matches
Eligible(p, root) ==
    /\ p \in DOMAIN disk
    /\ disk[p].kind = "file"
    /\ Under(p, root)
    /\ Extname(p) \in Range(SUPPORTED_EXTENSIONS)
    /\ ~IsIgnored(p, IgnorePatterns(disk, root))

\* C18: every collected path is a regular file under the root with a
\* supported extension that no translated or default ignore rule matches,
\* and every such file within the depth bound is collected.
C18_CollectorContract ==
    \A r \in RequestIds :
        (Responded(r) /\ reqs[r].discovery = "done") =>
            /\ \A f \in Range(reqs[r].files) : Eligible(f, reqs[r].normalizedPath)
            /\ \A p \in DOMAIN disk :
                  ( /\ Eligible(p, reqs[r].normalizedPath)
                    /\ DirectoriesBelow(reqs[r].normalizedPath, p) < reqs[r].maxDepth )
                  => p \in Range(reqs[r].files)

FileOps == {"parseFile", "push"}

\* the events of a scan whose discovery has settled: the ignore file is read,
\* glob starts, the race settles, then each collected file in turn is parsed
\* and its records pushed
Sequenced(events, root, files) ==
    /\ Len(events) = 3 + 2 * Len(files)
    /\ SubSeq(events, 1, 2) = DiscoveryEvents(root)
    /\ events[3] = Event("settled", root)
    /\ \A i \in 1..Len(files) :
          /\ events[2 + 2 * i] = Event("parseFile", files[i])
          /\ events[3 + 2 * i] = Event("push", files[i])

\* C20: within a scan no file is parsed before getFilesInDirectory has
\* settled, and each file is parsed and its records collected before the
\* next file is started.
C20_TraversalThenOneFileAtATime ==
    \A r \in RequestIds :
        /\ Pending(reqs[r]) =>
              \A i \in 1..Len(reqs[r].events) : reqs[r].events[i].op \notin FileOps
        /\ (Responded(r) /\ reqs[r].discovery # "none") =>
              Sequenced(reqs[r].events, reqs[r].normalizedPath, reqs[r].files)

C20_Witness ==
    \E r \in RequestIds :
        /\ Responded(r)
        /\ reqs[r].discovery = "done"
        /\ Len(reqs[r].files) >= 3
        /\ reqs[r].events[4] = Event("parseFile", FileX)
        /\ reqs[r].events[Len(reqs[r].events)].op = "push"

----------------------------------------------------------------------------
(* Properties of the dispatcher and the extractors, continued (SpecParse) *)

\* the number of lines of the texts handed to the dispatcher
MaxDispatchLines == 1

DispatchTexts ==
    UNION { { JoinLines(ls) : ls \in [1..n -> SourceLines] } : n \in 1..MaxDispatchLines }

\* Specification SpecDispatch: a file of every extension, with a short text,
\* goes through the loop body of the analyzers
InitDispatch ==
    /\ ServerIdle
    /\ pBase = HarnessRoot
    /\ \E ext \in HarnessExtensions : pPath = HarnessRoot \o <<"/","x">> \o ext
    /\ \E t \in DispatchTexts :
          disk = [p \in {pPath} |-> [kind |-> "file", readable |-> TRUE, text |-> t]]
    /\ pEntities = <<>>
    /\ pFunctions = <<>>
    /\ pClasses = <<>>
    /\ pRan = {}
    /\ lookup = LookupIdle

SpecDispatch == InitDispatch /\ [][NextParse]_vars

ScriptExtensions == {ExtJs, ExtJsx, ExtTs, ExtTsx}

\* the extractor the extension stands for
ExpectedParser(ext) ==
    IF ext \in ScriptExtensions THEN "JSParser"
    ELSE IF ext = ExtPy THEN "PythonParser"
    ELSE IF ext = ExtGo THEN "GoParser"
    ELSE "JSParser"

Parsers == {"JSParser", "PythonParser", "GoParser"}

\* C15: getParserForFile gives an extractor for every file path: the script
\* extractor for .js/.jsx/.ts/.tsx, the Python extractor for .py, the Go
\* extractor for .go and the script extractor for every other extension;
\* the records of the file are the ones that extractor yields.
C15_DispatcherTotal ==
    /\ getParserForFile(pPath) \in Parsers
    /\ getParserForFile(pPath) = ExpectedParser(Extname(pPath))
    /\ pRan # {} =>
          pEntities = ParseContent(ExpectedParser(Extname(pPath)), ParsedText,
                                   pPath, Relative(pBase, pPath))

\* a file with an unknown extension went through the script extractor
C15_Witness ==
    /\ Extname(pPath) = ExtMd
    /\ pRan # {}
    /\ pEntities # <<>>

\* C16: the Go extractor never yields a class record, whatever the text,
\* and getClasses yields nothing for a .go file.
C16_GoHasNoClasses ==
    Extname(pPath) = ExtGo =>
        /\ \A e \in Range(pEntities) : e.type # "class"
        /\ pClasses = <<>>

\* a .go file with a class line went through getClasses
C16_Witness ==
    /\ Extname(pPath) = ExtGo
    /\ "classes" \in pRan
    /\ ParsedText \in {LnClass, LnPyClass}

----------------------------------------------------------------------------
(* Specification SpecTwo: the server receives two requests for the same    *)
(* endpoint, the second at any time after the first, over a tree of two    *)
(* files, x.js, which cannot be read, and a/b/deep.js.                      *)

TwoRequestIds == {"r1", "r2"}

TwoQueryPaths == {<<>>, ScanRoot}

TwoFileTree == [p \in {FileX, FileDeep} |-> Tree(IgnoreMissing, {FileX})[p]]

InitTwo ==
    /\ disk = TwoFileTree
    /\ now = 0
    /\ reqs = [r \in TwoRequestIds |-> IdleRequest]
    /\ timers = {}
    /\ HarnessIdle

\* the second request arrives after the first, for the same endpoint
Arrives(r, endpoint) ==
    r = "r2" => (reqs["r1"].pc # "idle" /\ endpoint = reqs["r1"].endpoint)

NextTwo ==
    \/ \E r \in DOMAIN reqs, endpoint \in Endpoints, path \in TwoQueryPaths :
          Arrives(r, endpoint) /\ HandleRequest(r, endpoint, path, <<>>)
    \/ \E r \in DOMAIN reqs, duration \in {0, SlowExtractMs} : GlobResolves(r, duration)
    \/ \E r \in DOMAIN reqs : DiscoveryTimerFires(r)
    \/ \E r \in DOMAIN reqs : OperationTimerFires(r)
    \/ \E r \in DOMAIN reqs : ResponseTimeoutFires(r)
    \/ Tick

SpecTwo == InitTwo /\ [][NextTwo]_vars

Key(e) == <<e.name, e.type, e.relativePath>>

Keys(body) == { Key(body[i]) : i \in 1..Len(body) }

\* C13: two scans of the same unchanged directory with the same arguments
\* return record sets that are equal under (name, type, relativePath).
C13_ScanIdempotent ==
    \A r, q \in DOMAIN reqs :
        ( /\ Responded(r) /\ Responded(q)
          /\ reqs[r].status = 200 /\ reqs[q].status = 200
          /\ reqs[r].endpoint = reqs[q].endpoint
          /\ reqs[r].normalizedPath = reqs[q].normalizedPath
          /\ reqs[r].maxDepth = reqs[q].maxDepth )
        => Keys(reqs[r].body) = Keys(reqs[q].body)

\* the response a request gets from its own arguments, the tree and the
\* outcome of its own discovery
OwnResponse(req) ==
    IF req.path = <<>>
    THEN [status |-> 400, body |-> <<>>, error |-> PathRequiredMessage]
    ELSE IF req.discovery = "done"
    THEN [status |-> 200,
          body |-> CollectEntities(disk,
                                   GlobResult(disk, Resolve(req.path), req.maxDepth),
                                   Resolve(req.path), EndpointType(req.endpoint), <<>>),
          error |-> ""]
    ELSE [status |-> 200, body |-> <<>>, error |-> ""]

ResponseOf(req) == [status |-> req.status, body |-> req.body, error |-> req.error]

OwnResponses ==
    \A r \in DOMAIN reqs : Responded(r) => ResponseOf(reqs[r]) = OwnResponse(reqs[r])

\* a step leaves every response already sent as it is
ResponsesKept ==
    \A r \in DOMAIN reqs : Responded(r) => reqs'[r] = reqs[r]

\* C19: no failure outlives its scan: whatever the other scan did (timed
\* out, was rejected, met an unreadable file), the response of a scan is the
\* one its own arguments, the tree and its own discovery give, and no later
\* step (a timer of an earlier scan included) changes a response already
\* sent.
C19_FailureScopedToScan == []OwnResponses /\ [][ResponsesKept]_vars

\* the first scan timed out; the second started afterwards and returned
\* records
C19_Witness ==
    /\ Responded("r1")
    /\ reqs["r1"].discovery = "timeout"
    /\ Responded("r2")
    /\ reqs["r2"].startedAt >= reqs["r1"].respondedAt
    /\ reqs["r2"].discovery = "done"
    /\ reqs["r2"].body # <<>>

----------------------------------------------------------------------------
(* Overlapping scans (SpecTwo) *)

\* the time until which request q is in flight
InFlightUntil(q) == IF Responded(q) THEN reqs[q].respondedAt ELSE now + 1

\* both requests started a scan and were in flight at the same time
InFlightTogether(r, q) ==
    /\ r # q
    /\ reqs[r].discovery # "none"
    /\ reqs[q].discovery # "none"
    /\ reqs[q].startedAt < InFlightUntil(r)
    /\ reqs[r].startedAt < InFlightUntil(q)

\* the result of request r is the one the scan gives when it runs alone: its
\* discovery times out only on its own 20 s timer, it collects what glob
\* returns for its own root, extracts those files in order and answers 200
\* with the records of its own kind
ResultAsAlone(r) ==
    /\ reqs[r].status = 200
    /\ reqs[r].error = ""
    /\ Sequenced(reqs[r].events, reqs[r].normalizedPath, reqs[r].files)
    /\ IF reqs[r].discovery = "timeout"
       THEN /\ reqs[r].discoveredAt >= reqs[r].startedAt + DISCOVERY_TIMEOUT
            /\ reqs[r].files = <<>>
            /\ reqs[r].body = <<>>
       ELSE /\ reqs[r].files
                 = GlobResult(disk, reqs[r].normalizedPath, reqs[r].maxDepth)
            /\ reqs[r].body
                 = YieldOfType(r, reqs[r].files, EndpointType(reqs[r].endpoint))

\* C21: when two scans are in flight at once, under every interleaving of
\* their discovery, extraction and timers, the result of each is the result
\* it returns when it runs alone.
C21_OverlappingScansIndependent ==
    \A r, q \in DOMAIN reqs :
        (Responded(r) /\ InFlightTogether(r, q)) => ResultAsAlone(r)

\* two scans overlapped; one completed with records while the other was
\* still in flight, and the other timed out
C21_Witness ==
    /\ Responded("r1") /\ Responded("r2")
    /\ InFlightTogether("r1", "r2")
    /\ reqs["r2"].discovery = "done"
    /\ reqs["r2"].body # <<>>
    /\ reqs["r2"].respondedAt < reqs["r1"].respondedAt
    /\ reqs["r1"].discovery = "timeout"

----------------------------------------------------------------------------
(* Offset-to-line lookup of JSParser.findFunctions (SpecLookup) *)

LookupAlphabet == {"a", "\n"}

\* every text of at most MaxLookupLen characters
LookupTexts == UNION {[1..n -> LookupAlphabet] : n \in 0..MaxLookupLen}

\* the text is split and the table of line starts is built
InitLookup ==
    /\ ServerIdle
    /\ disk = [p \in {} |-> [kind |-> "file", readable |-> TRUE, text |-> <<>>]]
    /\ pPath = <<>>
    /\ pBase = <<>>
    /\ pEntities = <<>>
    /\ pFunctions = <<>>
    /\ pClasses = <<>>
    /\ pRan = {}
    /\ \E content \in LookupTexts :
          lookup = [LookupIdle EXCEPT !.pc = "ready",
                                      !.content = content,
                                      !.linePositions = LinePositions(content)]

\* a match at matchPosition: lineNumber = 1, low = 0, high = length - 1
StartLookup(matchPosition) ==
    /\ lookup.pc = "ready"
    /\ lookup' = [lookup EXCEPT !.pc = "searching",
                                !.matchPosition = matchPosition,
                                !.lineNumber = 1,
                                !.low = 0,
                                !.high = Len(lookup.linePositions) - 1]
    /\ UNCHANGED <<disk, pPath, pBase, pEntities, pFunctions, pClasses, pRan,
                   now, reqs, timers>>

\* one iteration of the loop with a strict first comparison
LookupStepStrict ==
    /\ lookup.pc = "searching"
    /\ IF lookup.low > lookup.high
       THEN lookup' = [lookup EXCEPT !.pc = "done"]
       ELSE LET mid == (lookup.low + lookup.high) \div 2
            IN  IF /\ lookup.linePositions[mid + 1] < lookup.matchPosition
                   /\ \/ mid = Len(lookup.linePositions) - 1
                      \/ lookup.linePositions[mid + 2] > lookup.matchPosition
                THEN lookup' = [lookup EXCEPT !.lineNumber = mid + 1, !.pc = "done"]
                ELSE IF lookup.linePositions[mid + 1] > lookup.matchPosition
                     THEN lookup' = [lookup EXCEPT !.high = mid - 1]
                     ELSE lookup' = [lookup EXCEPT !.low = mid + 1]
    /\ UNCHANGED <<disk, pPath, pBase, pEntities, pFunctions, pClasses, pRan,
                   now, reqs, timers>>

\* one test of `while (low <= high)` and, when it holds, one iteration
LookupStep ==
    /\ lookup.pc = "searching"
    /\ IF lookup.low > lookup.high
       THEN lookup' = [lookup EXCEPT !.pc = "done"]
       ELSE LET mid == (lookup.low + lookup.high) \div 2
            IN  IF /\ lookup.linePositions[mid + 1] <= lookup.matchPosition
                   /\ \/ mid = Len(lookup.linePositions) - 1
                      \/ lookup.linePositions[mid + 2] > lookup.matchPosition
                THEN lookup' = [lookup EXCEPT !.lineNumber = mid + 1, !.pc = "done"]
                ELSE IF lookup.linePositions[mid + 1] > lookup.matchPosition
                     THEN lookup' = [lookup EXCEPT !.high = mid - 1]
                     ELSE lookup' = [lookup EXCEPT !.low = mid + 1]
    /\ UNCHANGED <<disk, pPath, pBase, pEntities, pFunctions, pClasses, pRan,
                   now, reqs, timers>>

NextLookup ==
    \/ \E matchPosition \in 0..Len(lookup.content) : StartLookup(matchPosition)
    \/ LookupStep

\* the loop is synchronous code: once entered it keeps running
SpecLookup == InitLookup /\ [][NextLookup]_vars /\ WF_vars(LookupStep)

\* the reference: the number of newline characters before the offset
NewlinesBefore(content, offset) ==
    Cardinality({i \in 1..offset : content[i] = "\n"})

LookupSearching == lookup.pc = "searching"

LookupDone == lookup.pc = "done"

\* C22: for every text and every offset from 0 to the length of the text the
\* binary search over the line-offset table terminates, and the line it
\* returns is 1 + the number of newline characters before the offset (at a
\* line start, on the last line and at the end of the text included).
C22_LookupIsReference ==
    /\ [](LookupDone =>
            /\ lookup.lineNumber
                 = 1 + NewlinesBefore(lookup.content, lookup.matchPosition)
            /\ LET r == BinarySearch(lookup.linePositions, lookup.matchPosition,
                                     0, Len(lookup.linePositions) - 1)
               IN  r = lookup.lineNumber - 1)
    /\ (LookupSearching ~> LookupDone)

\* a lookup finished for an offset that is the start of the last of three or
\* more lines and also the end of the text
C22_Witness ==
    /\ LookupDone
    /\ Len(lookup.linePositions) >= 3
    /\ lookup.matchPosition = Len(lookup.content)
    /\ lookup.matchPosition = lookup.linePositions[Len(lookup.linePositions)]
    /\ lookup.lineNumber = Len(lookup.linePositions)

----------------------------------------------------------------------------
(* Rejections of the extractors (SpecReject) *)

WordIf == <<"i","f">>
WordFor == <<"f","o","r">>
WordWhile == <<"w","h","i","l","e">>
WordSwitch == <<"s","w","i","t","c","h">>
WordCatch == <<"c","a","t","c","h">>

ControlWords == {WordIf, WordFor, WordWhile, WordSwitch, WordCatch}

\* "<word> (x) {}"
ControlLine(word) == word \o <<" ","(","x",")"," ","{","}">>

\* "# class Foo:"
LnPyCommentClass == <<"#"," ">> \o KwClass \o <<" ","F","o","o",":">>

\* s = "class Bar:"
LnPyStringClass ==
    <<"s"," ","="," ","\"">> \o KwClass \o <<" ","B","a","r",":","\"">>

\* "// class A"
LnCommentA == <<"/","/"," ">> \o KwClass \o <<" ","A">>

\* "// note"
LnNote == <<"/","/"," ","n","o","t","e">>

\* "# class A:"
LnPyCommentA == <<"#"," ">> \o KwClass \o <<" ","A",":">>

RejectLines ==
    { ControlLine(w) : w \in ControlWords }
        \cup { LnFunction, LnClass, LnCommentA, LnNote,
               LnDef, LnPyClass, LnPyCommentA, LnPyCommentClass, LnPyStringClass }

RejectTexts ==
    UNION { { JoinLines(ls) : ls \in [1..n -> RejectLines] } : n \in 1..MaxRejectLines }

RejectExtensions == {ExtJs, ExtTs, ExtPy}

\* Specification SpecReject: a script or Python file made of control
\* statements, declarations and quoted or commented-out declarations goes
\* through the loop body of the analyzers
InitReject ==
    /\ ServerIdle
    /\ pBase = HarnessRoot
    /\ \E ext \in RejectExtensions : pPath = HarnessRoot \o <<"/","x">> \o ext
    /\ \E t \in RejectTexts :
          disk = [p \in {pPath} |-> [kind |-> "file", readable |-> TRUE, text |-> t]]
    /\ pEntities = <<>>
    /\ pFunctions = <<>>
    /\ pClasses = <<>>
    /\ pRan = {}
    /\ lookup = LookupIdle

SpecReject == InitReject /\ [][NextParse]_vars

\* C23: the script extractor yields no function record whose name is one of
\* the control words if, for, while, switch, catch, although its method
\* pattern matches them.
C23_ControlWordsNotFunctions ==
    getParserForFile(pPath) = "JSParser" =>
        \A e \in Range(pEntities) \cup Range(pFunctions) :
            e.type = "function" => e.name \notin ControlWords

\* a script file with a control statement on line 1 and a function
\* declaration on line 2 went through getFunctions: the method pattern
\* matched the control word, and every record is the function's
C23_Witness ==
    /\ getParserForFile(pPath) = "JSParser"
    /\ "functions" \in pRan
    /\ \E w \in ControlWords : ParsedText = JoinLines(<<ControlLine(w), LnFunction>>)
    /\ \E i \in 1..Len(MatchAll("method", ParsedText, 0)) :
          MatchAll("method", ParsedText, 0)[i].name \in ControlWords
    /\ pFunctions # <<>>
    /\ \A e \in Range(pFunctions) : e.name = <<"f">> /\ e.line = 2

\* C25: in a Python file the text `class Foo:` on a # comment line and the
\* text `class Bar:` inside a quoted string never give a class record.
C25_PythonCommentAndStringNotClasses ==
    getParserForFile(pPath) = "PythonParser" =>
        \A e \in Range(pEntities) :
            e.type = "class" => e.name \notin {NameFoo, NameBar}

\* the matches of the class pattern of the extractor of the parsed file
ClassMatches ==
    IF getParserForFile(pPath) = "PythonParser"
    THEN MatchAll("pyClass", ParsedText, 0)
    ELSE MatchAll("jsClass", ParsedText, 0)

CommentMark ==
    IF getParserForFile(pPath) = "PythonParser" THEN <<"#">> ELSE <<"/", "/">>

\* the offset of the keyword `class` of match m: the script pattern may
\* start one character earlier, at the white space before the keyword
KeywordOffset(m) ==
    IF CharAt(ParsedText, m.index) \in WhiteSpace THEN m.index + 1 ELSE m.index

\* the 1-based line on which the keyword of match m stands
KeywordLine(m) == 1 + NewlinesBefore(ParsedText, KeywordOffset(m))

\* match m passes the rejection: its line is neither a comment line nor a
\* line with a quoted `class`
PassesRejection(m) == ~RejectedLine(ParsedLines[KeywordLine(m)], CommentMark)

\* match i is the first match of its name that passes the rejection
FirstAccepted(ms, i) ==
    /\ PassesRejection(ms[i])
    /\ \A j \in 1..(i - 1) : ms[j].name = ms[i].name => ~PassesRejection(ms[j])

\* name and line of the class records the file yields
ClassRecords == { <<e.name, e.line>> : e \in {x \in Range(pEntities) : x.type = "class"} }

\* C24: the class records of a file are deduplicated: there is at most one
\* class record per name; the record kept is the first match of the name
\* that passes the rejection, so a rejected earlier match does not suppress
\* a later accepted one.
C24_ClassRecordsDeduplicated ==
    (getParserForFile(pPath) \in {"JSParser", "PythonParser"} /\ pRan # {}) =>
        /\ \A i, j \in 1..Len(pEntities) :
              (/\ pEntities[i].type = "class"
               /\ pEntities[j].type = "class"
               /\ pEntities[i].name = pEntities[j].name) => i = j
        /\ ClassRecords
             = { <<ClassMatches[i].name, KeywordLine(ClassMatches[i])>> :
                   i \in {k \in 1..Len(ClassMatches) : FirstAccepted(ClassMatches, k)} }

\* the line-offset table findClasses works with, given the function records
\* parseFile returned
ClassTable == JsClassLinePositions(ParsedText, FilterType(pEntities, "function"))

\* C27: whenever the script extractor resolves a class match, its
\* line-offset table has one entry per line of the text, whether or not
\* findFunctions added records before.
C27_ClassTableComplete ==
    (/\ getParserForFile(pPath) = "JSParser"
     /\ pRan # {}
     /\ ClassMatches # <<>>) =>
        Len(ClassTable) = Len(ParsedLines)

\* the 1-based line findClasses inspects and reports for match m when its
\* table is complete
InspectedLine(m) ==
    LET r == BinarySearch(LinePositions(ParsedText), m.index,
                          0, Len(LinePositions(ParsedText)) - 1)
    IN  (IF r = -1 THEN 0 ELSE r) + 1

\* C28: with a complete table, the line the script extractor inspects for
\* the rejection and reports is the line of the matched `class` keyword,
\* also when the keyword is the first token of a line other than line 1.
C28_InspectedLineIsKeywordLine ==
    (/\ getParserForFile(pPath) = "JSParser"
     /\ pRan # {}
     /\ FilterType(pEntities, "function") = <<>>) =>
        /\ \A i \in 1..Len(ClassMatches) :
              (\A j \in 1..(i - 1) : ClassMatches[j].name # ClassMatches[i].name)
                  => InspectedLine(ClassMatches[i]) = KeywordLine(ClassMatches[i])
        /\ \A e \in Range(pEntities) :
              e.type = "class" =>
                  \E i \in 1..Len(ClassMatches) :
                      /\ ClassMatches[i].name = e.name
                      /\ KeywordLine(ClassMatches[i]) = e.line

----------------------------------------------------------------------------
(* Translation of the ignore rules (Spec) *)

\* the rule an ignore line stands for under root: a single leading "/" is
\* dropped, a trailing "/" gets "**", a "!" line is a negation under root
RuleOfLine(line, root) ==
    LET body == IF line # <<>> /\ Head(line) = "/" THEN Tail(line) ELSE line
        scoped == IF body # <<>> /\ body[Len(body)] = "/"
                  THEN body \o <<"*", "*">> ELSE body
    IN  IF scoped # <<>> /\ Head(scoped) = "!"
        THEN <<"!">> \o root \o <<"/">> \o Tail(scoped)
        ELSE root \o <<"/">> \o scoped

\* C26: the ignore rules of a scan are one rule per line of the ignore
\* file, in the order of the lines, each the translation of its line (a
\* leading "/" stripped, "**" after a trailing "/", a "!" line a negation
\* under the root, any other line <root>/<pattern>), followed by the eight
\* default exclusions.
C26_TranslationOrderPreserving ==
    \A r \in RequestIds :
        reqs[r].discovery # "none" =>
            LET root == reqs[r].normalizedPath
                lines == readGitignore(disk, root)
                rules == IgnorePatterns(disk, root)
                n == Len(lines)
            IN  /\ Len(rules) = n + 8
                /\ \A i \in 1..n : rules[i] = RuleOfLine(lines[i], root)
                /\ { rules[n + k] : k \in 1..8 }
                     = { root \o <<"/">> \o d \o <<"/", "*", "*">> : d \in DefaultDirectories }
                /\ convertGitignorePatternsToGlob(lines, root)
                     = [i \in 1..n |-> rules[i]]

\* a scan completed under the ignore file "logs/" then "!logs/keep.py": the
\* directory rule comes first, the negation second, then the defaults
C26_Witness ==
    \E r \in RequestIds :
        /\ Responded(r)
        /\ reqs[r].discovery = "done"
        /\ readGitignore(disk, reqs[r].normalizedPath) = <<IgnoreLineLogs, IgnoreLineKeep>>
        /\ IgnorePatterns(disk, reqs[r].normalizedPath)[1]
             = ScanRoot \o <<"/","l","o","g","s","/","*","*">>
        /\ IgnorePatterns(disk, reqs[r].normalizedPath)[2]
             = <<"!">> \o ScanRoot \o <<"/","l","o","g","s","/","k","e","e","p",".","p","y">>
        /\ Len(IgnorePatterns(disk, reqs[r].normalizedPath)) = 10

----------------------------------------------------------------------------
(* One request and the event loop that keeps running (SpecLive) *)

InitLive ==
    /\ disk = TwoFileTree
    /\ now = 0
    /\ reqs = [r \in RequestIds |-> IdleRequest]
    /\ timers = {}
    /\ HarnessIdle

\* the event loop runs a due timer callback, and time passes while it waits
LoopRuns ==
    /\ WF_vars(Tick)
    /\ \A r \in RequestIds :
          /\ WF_vars(DiscoveryTimerFires(r))
          /\ WF_vars(OperationTimerFires(r))
          /\ WF_vars(ResponseTimeoutFires(r))

\* a directory that does not exist
MissingDirectory == <<"/","n">>

LivePaths == QueryPaths \cup {MissingDirectory}

NextLive ==
    \/ \E r \in DOMAIN reqs, endpoint \in Endpoints, path \in LivePaths, depth \in QueryDepths :
          HandleRequest(r, endpoint, path, depth)
    \/ \E r \in DOMAIN reqs, duration \in {0, SlowExtractMs} : GlobResolves(r, duration)
    \/ \E r \in DOMAIN reqs : DiscoveryTimerFires(r)
    \/ \E r \in DOMAIN reqs : OperationTimerFires(r)
    \/ \E r \in DOMAIN reqs : ResponseTimeoutFires(r)
    \/ Tick

SpecLive == InitLive /\ [][NextLive]_vars /\ LoopRuns

\* the value is an array of records of the kind of the endpoint
ArrayOfKind(body, type) ==
    /\ DOMAIN body = 1..Len(body)
    /\ \A i \in 1..Len(body) : body[i].type = type

\* C29: the analyzers never reject: once the scan of a request has settled
\* (discovery completed over readable and unreadable files, over a missing
\* directory, or timed out) the handler has answered 200 with the array the
\* analyzer resolved with; a 500 answer carries the message of the 25 s
\* timer and is written no earlier than 25 s after the request.
C29_AnalyzersNeverReject ==
    \A r \in RequestIds :
        /\ reqs[r].discovery \in {"done", "timeout"} =>
              /\ Responded(r)
              /\ reqs[r].status = 200
              /\ reqs[r].error = ""
              /\ ArrayOfKind(reqs[r].body, EndpointType(reqs[r].endpoint))
        /\ reqs[r].status = 500 =>
              /\ reqs[r].error = OperationTimeoutMessage
              /\ reqs[r].respondedAt >= reqs[r].startedAt + OPERATION_TIMEOUT

\* a scan whose file list holds a file that cannot be read settled, and the
\* analyzer resolved with the records of the other file
C29_Witness ==
    \E r \in RequestIds :
        /\ Responded(r)
        /\ reqs[r].discovery = "done"
        /\ \E i \in 1..Len(reqs[r].files) : ~disk[reqs[r].files[i]].readable
        /\ reqs[r].status = 200
        /\ reqs[r].body # <<>>

\* C30: a request is answered exactly once: whatever the order of scan
\* completion and of the 20 s, 25 s and 30 s timers, the status line is
\* written once and the response ended once, and every request that
\* arrived is eventually answered.
C30_AnsweredExactlyOnce ==
    /\ [](\A r \in RequestIds :
            /\ reqs[r].writes <= 1
            /\ Responded(r) <=> reqs[r].writes = 1)
    /\ \A r \in RequestIds : (reqs[r].pc # "idle") ~> Responded(r)

\* the scan never completed: the request was answered by the 20 s timer, and
\* the 25 s and 30 s timers have run after the answer
C30_Witness ==
    \E r \in RequestIds :
        /\ Responded(r)
        /\ reqs[r].discovery = "timeout"
        /\ reqs[r].writes = 1
        /\ timers = {}
        /\ now >= reqs[r].startedAt + RESPONSE_TIMEOUT

============================================================================
